---- MODULE Spec2Model ----
(***************************************************************************)
(* Model of the Product_Intel "Sidekick" agent loop (graph.py, agents.py). *)
(* The session state is the LangGraph State kept by the MemorySaver        *)
(* checkpointer under the single thread id of the Sidekick instance.       *)
(* One action per graph node (worker, tools, evaluator) and one for the    *)
(* entry of run_step; the tail of run_step (building the returned          *)
(* transcript) runs in the step that routes to END.                        *)
(***************************************************************************)
EXTENDS Integers, Sequences, FiniteSets, TLC

(* ----------------------------- bounds ---------------------------------- *)
\* run_step invocations explored on one Sidekick instance
MaxRuns == 2
\* Worker invocations explored on one Sidekick instance (the code has no cap)
MaxWorker == 4
\* cleanup() calls explored on one Sidekick instance
MaxCleanups == 2
\* pieces of text an argument of select_prompt is put together from
MaxTokens == 3
\* node steps explored over two overlapping run_step calls
MaxConcSteps == 4
\* rejections the scripted evaluator gives before it accepts
MaxRejects == 13

(* ----------------------------- strings --------------------------------- *)
\* "needle in hay" of Python, on strings
Contains(hay, needle) ==
  \E i \in 1..(Len(hay) - Len(needle) + 1) :
     SubSeq(hay, i, i + Len(needle) - 1) = needle

LowerChar(c) ==
  CASE c = "A" -> "a" [] c = "C" -> "c" [] c = "E" -> "e" [] c = "F" -> "f"
    [] c = "I" -> "i" [] c = "K" -> "k" [] c = "M" -> "m" [] c = "N" -> "n"
    [] c = "O" -> "o" [] c = "P" -> "p" [] c = "R" -> "r" [] c = "S" -> "s"
    [] c = "T" -> "t" [] OTHER -> c

RECURSIVE Lower(_)
Lower(s) ==
  IF Len(s) = 0 THEN ""
  ELSE LowerChar(SubSeq(s, 1, 1)) \o Lower(SubSeq(s, 2, Len(s)))

RECURSIVE Strip(_)
Strip(s) ==
  IF Len(s) = 0 THEN ""
  ELSE IF SubSeq(s, 1, 1) = " " THEN Strip(SubSeq(s, 2, Len(s)))
  ELSE IF SubSeq(s, Len(s), Len(s)) = " " THEN Strip(SubSeq(s, 1, Len(s) - 1))
  ELSE s

(* ----------------------------- agents.py -------------------------------- *)
\* the three templates, each abbreviated to its title line
COMPETITOR_PROMPT == "\n# Competitor Launch Analysis\n"
SENTIMENT_PROMPT == "\n# Market Sentiment Brief\n"
METRICS_PROMPT == "\n# Launch Performance Snapshot\n"

\* mutant: the argument is not lowercased
select_prompt_case_sensitive(mode) ==
  LET m == Strip(mode) IN
    IF Contains(m, "sentiment") THEN SENTIMENT_PROMPT
    ELSE IF Contains(m, "metric") \/ Contains(m, "kpi") \/ Contains(m, "performance")
         THEN METRICS_PROMPT
    ELSE COMPETITOR_PROMPT

select_prompt(mode) ==
  LET m == Lower(Strip(mode)) IN
    IF Contains(m, "sentiment") THEN SENTIMENT_PROMPT
    ELSE IF Contains(m, "metric") \/ Contains(m, "kpi") \/ Contains(m, "performance")
         THEN METRICS_PROMPT
    ELSE COMPETITOR_PROMPT

(* ----------------------------- messages -------------------------------- *)
\* id 0 stands for "no id yet" (None)
SystemMessage(c) ==
  [type |-> "system", content |-> c, tool_calls |-> <<>>, tool_call_id |-> "", id |-> 0]
HumanMessage(c) ==
  [type |-> "human", content |-> c, tool_calls |-> <<>>, tool_call_id |-> "", id |-> 0]
AIMessage(c, calls) ==
  [type |-> "ai", content |-> c, tool_calls |-> calls, tool_call_id |-> "", id |-> 0]
ToolMessage(c, call) ==
  [type |-> "tool", content |-> c, tool_calls |-> <<>>, tool_call_id |-> call, id |-> 0]

\* Optional[str]: <<>> is None, <<s>> is the string s
None == <<>>
Some(s) == <<s>>
Truthy(opt) == opt # None /\ opt[1] # ""

(* ----------------------------- inputs ---------------------------------- *)
Turn(r, c) == [role |-> r, content |-> c]
\* the histories a caller supplies: none, and an earlier exchange
Histories == { <<>>,
               <<Turn("user", "hi"), Turn("assistant", "hello")>> }
UserMessages == { "OpenAI launch" }
Criteria == { "", " KPI check " }

\* what the worker model may answer: text, or a request for tool calls
WorkerResponses ==
  { [content |-> "final", tool_calls |-> <<>>],
    [content |-> "", tool_calls |-> <<"call_1">>] }
\* how a requested tool invocation may end: the tool returns, the tool
\* raises, or the request names a tool that is not registered
ToolOutcomes == { "returns", "raises", "unknown_tool" }

\* mutant: a failure leaves an empty Tool-Result
tool_content_silent(outcome) ==
  IF outcome = "returns" THEN "result" ELSE ""

\* ToolNode with its default error handling: the content of the Tool-Result
tool_content(outcome) ==
  CASE outcome = "returns" -> "result"
    [] outcome = "raises" -> "Error: tool failed"
    [] outcome = "unknown_tool" -> "Error: not a valid tool"

\* what a tool invocation may leave as the content of its Tool-Result
ToolOutputs == { tool_content(o) : o \in ToolOutcomes }
\* what the evaluator model may answer (EvaluatorOutput)
Verdict(f, met, needed) ==
  [feedback |-> f, success_criteria_met |-> met, user_input_needed |-> needed]
Verdicts ==
  { Verdict("ok", TRUE, FALSE), Verdict("add sources", FALSE, FALSE),
    Verdict("", FALSE, FALSE), Verdict("which product?", FALSE, TRUE) }

(* ----------------------------- state ----------------------------------- *)
VARIABLES
  pc,                    \* node the graph runs next: idle, worker, tools, evaluator, done, failed
  messages,              \* State.messages, as kept by the checkpointer
  success_criteria,      \* State.success_criteria
  feedback_on_work,      \* State.feedback_on_work
  success_criteria_met,  \* State.success_criteria_met
  user_input_needed,     \* State.user_input_needed
  next_id,               \* next fresh message id
  history,               \* run_step argument
  user_message,          \* run_step argument
  out,                   \* value returned by the last completed run_step
  system_message,        \* directive composed by the last Worker step
  llm_messages,          \* message list handed to the worker model by the last Worker step
  clock,                 \* datetime.now(), one tick per Worker step
  runs,                  \* run_step invocations so far
  run_base,              \* number of messages the checkpoint held when the run began
  n_worker,              \* Worker steps begun in the current run
  n_tools,               \* Tool Dispatch steps of the current run
  n_eval,                \* Evaluator verdicts of the current run
  n_reject,              \* Evaluator verdicts of the current run with both flags false
  last_step,             \* node that ran last: none, start, worker, tools, evaluator
  last_verdict,          \* Optional: what the evaluator model returned last in this run
  tool_outcomes,         \* how each tool invocation of the last Tool Dispatch step ended
  n_invoke,              \* model invocations (worker and evaluator) of the current run
  invoke_raised          \* the last model invocation of the current run raised

\* the agent loop
loop_vars == << pc, messages, success_criteria, feedback_on_work, success_criteria_met,
                user_input_needed, next_id, history, user_message, out, system_message,
                llm_messages, clock, runs, run_base, n_worker, n_tools, n_eval, n_reject,
                last_step, last_verdict, tool_outcomes, n_invoke, invoke_raised >>

\* setup() and cleanup(): the Playwright handles and the event loop of one call
VARIABLES
  c_pc,                  \* new, ready, anyio_run, fallback_run, draining, returned, raised
  sk_browser,            \* Sidekick._browser is set (truthy)
  sk_playwright,         \* Sidekick._playwright is set (truthy)
  browser_state,         \* the browser itself: absent, open, closing, closed
  playwright_state,      \* the driver itself: absent, started, stopping, stopped
  c_loop_running,        \* the caller of cleanup() is inside a running event loop
  c_tasks,               \* tasks created on the event loop of the current cleanup() call
  c_calls,               \* cleanup() calls begun
  c_issued,              \* close/stop operations begun during the current cleanup() call
  c_released_before      \* browser and driver were already closed when the current call began

cleanup_vars == << c_pc, sk_browser, sk_playwright, browser_state, playwright_state,
                   c_loop_running, c_tasks, c_calls, c_issued, c_released_before >>

\* a call of select_prompt on its own
VARIABLES
  p_input,               \* the argument: None, or a text given by its pieces
  p_result               \* Optional: the template the call returned

prompt_vars == << p_input, p_result >>

\* two run_step calls on one Sidekick that overlap in time
VARIABLES
  k_pc,                  \* per call: "idle", "worker", "tools", "evaluator", "done", "failed"
  k_state,               \* per call: the channel values its graph invocation works on
  checkpoint,            \* the latest checkpoint of the thread in the MemorySaver
  k_writer,              \* the call that saved the latest checkpoint, 0 for none
  k_next_id,             \* next fresh message id
  k_steps,               \* node steps taken so far
  k_start_len,           \* per call: messages in the checkpoint when the call started
  k_foreign              \* per call: messages it started from that an unfinished call had added

conc_vars == << k_pc, k_state, checkpoint, k_writer, k_next_id, k_steps, k_start_len,
                k_foreign >>

\* one run_step call followed to its end, with scripted models
VARIABLES
  l_script,              \* how the worker model and the evaluator model answer
  l_pc,                  \* "idle", "worker", "tools", "evaluator", "done", "failed"
  l_state,               \* the channel values of the graph invocation
  l_next_id,             \* next fresh message id
  l_steps,               \* super-steps the invocation has run
  l_evals,               \* verdicts given so far
  l_error                \* the exception that left run_step, "" for none

limit_vars == << l_script, l_pc, l_state, l_next_id, l_steps, l_evals, l_error >>

\* everything the agent loop leaves alone
aux_vars == << cleanup_vars, prompt_vars, conc_vars, limit_vars >>

vars == << loop_vars, aux_vars >>

Last(s) == s[Len(s)]

(* ----------------------------- add_messages ----------------------------- *)
\* messages without an id get a fresh one
AssignIds(msgs, n) ==
  [i \in 1..Len(msgs) |-> IF msgs[i].id = 0 THEN [msgs[i] EXCEPT !.id = n + i - 1] ELSE msgs[i]]

IndexOfId(msgs, id) ==
  IF \E i \in 1..Len(msgs) : msgs[i].id = id
  THEN CHOOSE i \in 1..Len(msgs) : msgs[i].id = id
  ELSE 0

\* the reducer of State.messages: a message whose id is already present
\* replaces that message, any other message is appended
RECURSIVE Merge(_, _)
Merge(left, right) ==
  IF right = <<>> THEN left
  ELSE LET m == Head(right)
           k == IndexOfId(left, m.id)
       IN Merge(IF k = 0 THEN Append(left, m) ELSE [left EXCEPT ![k] = m], Tail(right))

\* mutant: the channel has no reducer, an update overwrites it
add_messages_overwrite(left, right, n) == AssignIds(right, n)

add_messages(left, right, n) == Merge(left, AssignIds(right, n))

(* ----------------------------- worker ----------------------------------- *)
\* the block appended when feedback_on_work is truthy
CorrectiveHeader ==
  "\nImportant: Your last attempt did not meet the success criteria.\nFeedback to address:\n"
CorrectiveBlock(feedback) == CorrectiveHeader \o feedback \o "\n"

\* mutant: the feedback is left out of the directive
compose_system_message_no_feedback(criteria, feedback, now) ==
  select_prompt(criteria) \o "\n\n" \o "Current date/time: " \o ToString(now)
     \o "\n\nGeneral rules:\n- Use tools when they can improve freshness.\n"

\* the general rules are abbreviated to their first line
compose_system_message(criteria, feedback, now) ==
  LET analyst_prompt == select_prompt(criteria)
      base0 == "Current date/time: " \o ToString(now)
                 \o "\n\nGeneral rules:\n- Use tools when they can improve freshness.\n"
      base == IF Truthy(feedback) THEN base0 \o CorrectiveBlock(feedback[1]) ELSE base0
  IN analyst_prompt \o "\n\n" \o base

FirstSystem(msgs) ==
  IF \E i \in 1..Len(msgs) : msgs[i].type = "system"
  THEN CHOOSE i \in 1..Len(msgs) :
          /\ msgs[i].type = "system"
          /\ \A j \in 1..(i - 1) : msgs[j].type # "system"
  ELSE 0

\* mutant: the directive is never put in front
worker_messages_no_prepend(msgs, directive) ==
  LET k == FirstSystem(msgs) IN
    IF k # 0 THEN [msgs EXCEPT ![k].content = directive] ELSE msgs

\* mutant: the directive is put behind the conversation
worker_messages_append(msgs, directive) ==
  LET k == FirstSystem(msgs) IN
    IF k # 0 THEN [msgs EXCEPT ![k].content = directive]
    ELSE msgs \o <<SystemMessage(directive)>>

\* the list the worker hands to the model: the first System message gets the
\* new directive, and when there is none one is put in front of a new list
worker_messages(msgs, directive) ==
  LET k == FirstSystem(msgs) IN
    IF k # 0 THEN [msgs EXCEPT ![k].content = directive]
    ELSE <<SystemMessage(directive)>> \o msgs

\* the state's own list after the scan: only the in-place replacement touches it
scanned_messages(msgs, directive) ==
  LET k == FirstSystem(msgs) IN
    IF k # 0 THEN [msgs EXCEPT ![k].content = directive] ELSE msgs

\* mutant: pending tool calls are ignored
worker_router_always_evaluator(msgs) == "evaluator"

worker_router(msgs) ==
  IF Last(msgs).type = "ai" /\ Last(msgs).tool_calls # <<>> THEN "tools" ELSE "evaluator"

worker ==
  /\ pc = "worker"
  /\ clock < MaxWorker
  /\ LET directive == compose_system_message(success_criteria, feedback_on_work, clock) IN
       /\ system_message' = directive
       /\ llm_messages' = worker_messages(messages, directive)
       /\ clock' = clock + 1
       /\ n_worker' = n_worker + 1
       /\ n_invoke' = n_invoke + 1
       /\ last_step' = "worker"
       /\ \/ \E r \in WorkerResponses :
               /\ messages' = add_messages(scanned_messages(messages, directive),
                                           <<AIMessage(r.content, r.tool_calls)>>, next_id)
               /\ next_id' = next_id + 1
               /\ pc' = worker_router(messages')
               /\ invoke_raised' = FALSE
          \/ \* the model invocation raises
             /\ messages' = scanned_messages(messages, directive)
             /\ pc' = "failed"
             /\ invoke_raised' = TRUE
             /\ UNCHANGED next_id
  /\ UNCHANGED << success_criteria, feedback_on_work, success_criteria_met,
                  user_input_needed, history, user_message, out, runs, run_base,
                  n_tools, n_eval, n_reject, last_verdict, tool_outcomes >>
  /\ UNCHANGED aux_vars

(* ----------------------------- tools ------------------------------------ *)
\* sg.add_edge("tools", "worker")
tools_edge_to_evaluator == "evaluator"
tools_edge == "worker"

\* mutant: the tools step clears the feedback
tools_clears_feedback ==
  /\ pc = "tools"
  /\ LET calls == Last(messages).tool_calls IN
       \E outs \in [1..Len(calls) -> ToolOutcomes] :
          /\ messages' = add_messages(messages,
                            [i \in 1..Len(calls) |-> ToolMessage(tool_content(outs[i]), calls[i])],
                            next_id)
          /\ next_id' = next_id + Len(calls)
          /\ tool_outcomes' = outs
  /\ pc' = tools_edge
  /\ n_tools' = n_tools + 1
  /\ last_step' = "tools"
  /\ feedback_on_work' = None
  /\ UNCHANGED << success_criteria, success_criteria_met,
                  user_input_needed, history, user_message, out, system_message,
                  llm_messages, clock, runs, run_base, n_worker, n_eval, n_reject,
                  last_verdict, n_invoke, invoke_raised >>
  /\ UNCHANGED aux_vars

\* ToolNode: one Tool-Result per pending call of the last message, then the
\* fixed edge back to the worker
tools ==
  /\ pc = "tools"
  /\ LET calls == Last(messages).tool_calls IN
       \E outs \in [1..Len(calls) -> ToolOutcomes] :
          /\ messages' = add_messages(messages,
                            [i \in 1..Len(calls) |-> ToolMessage(tool_content(outs[i]), calls[i])],
                            next_id)
          /\ next_id' = next_id + Len(calls)
          /\ tool_outcomes' = outs
  /\ pc' = tools_edge
  /\ n_tools' = n_tools + 1
  /\ last_step' = "tools"
  /\ UNCHANGED << success_criteria, feedback_on_work, success_criteria_met,
                  user_input_needed, history, user_message, out, system_message,
                  llm_messages, clock, runs, run_base, n_worker, n_eval, n_reject,
                  last_verdict, n_invoke, invoke_raised >>
  /\ UNCHANGED aux_vars

(* ----------------------------- evaluator -------------------------------- *)
route_post_eval_always_end(met, needed) == "END"
route_post_eval_and(met, needed) == IF met /\ needed THEN "END" ELSE "worker"
route_post_eval_inverted(met, needed) == IF met \/ needed THEN "worker" ELSE "END"
route_post_eval(met, needed) == IF met \/ needed THEN "END" ELSE "worker"

\* run_step after the graph returned: history, the user turn, then one
\* assistant entry per AIMessage of the resulting state
AssistantEntries(msgs) ==
  LET ai == SelectSeq(msgs, LAMBDA m : m.type = "ai")
  IN [i \in 1..Len(ai) |-> [role |-> "assistant", content |-> ai[i].content]]

format_out(hist, user, msgs) ==
  hist \o <<[role |-> "user", content |-> user]>> \o AssistantEntries(msgs)

\* mutant: a failed evaluation is taken as a verdict of "not met"
evaluator_raises_default_verdict ==
  /\ pc = "evaluator"
  /\ last_step' = "evaluator"
  /\ n_invoke' = n_invoke + 1
  /\ invoke_raised' = TRUE
  /\ feedback_on_work' = Some("")
  /\ success_criteria_met' = FALSE
  /\ user_input_needed' = FALSE
  /\ pc' = "worker"
  /\ UNCHANGED << messages, next_id, n_eval, n_reject, out, last_verdict,
                  success_criteria, history, user_message, system_message, llm_messages,
                  clock, runs, run_base, n_worker, n_tools, tool_outcomes >>
  /\ UNCHANGED aux_vars

\* the model invocation raises, or its output fails validation: nothing is
\* caught, the exception leaves the graph and run_step
evaluator_raises ==
  /\ pc = "evaluator"
  /\ last_step' = "evaluator"
  /\ n_invoke' = n_invoke + 1
  /\ invoke_raised' = TRUE
  /\ pc' = "failed"
  /\ UNCHANGED << messages, next_id, feedback_on_work, success_criteria_met,
                  user_input_needed, n_eval, n_reject, out, last_verdict,
                  success_criteria, history, user_message, system_message, llm_messages,
                  clock, runs, run_base, n_worker, n_tools, tool_outcomes >>
  /\ UNCHANGED aux_vars

\* mutant: the two flags of the verdict are stored in each other's place
evaluator_returns_swapped_flags ==
  /\ pc = "evaluator"
  /\ last_step' = "evaluator"
  /\ n_invoke' = n_invoke + 1
  /\ invoke_raised' = FALSE
  /\ \E v \in Verdicts :
          /\ messages' = add_messages(messages,
                            <<AIMessage("Evaluator Feedback: " \o v.feedback, <<>>)>>, next_id)
          /\ next_id' = next_id + 1
          /\ feedback_on_work' = Some(v.feedback)
          /\ success_criteria_met' = v.user_input_needed
          /\ user_input_needed' = v.success_criteria_met
          /\ last_verdict' = Some(v)
          /\ n_eval' = n_eval + 1
          /\ n_reject' = IF v.success_criteria_met \/ v.user_input_needed
                         THEN n_reject ELSE n_reject + 1
          /\ IF route_post_eval(success_criteria_met', user_input_needed') = "END"
             THEN /\ pc' = "done"
                  /\ out' = format_out(history, user_message, messages')
             ELSE /\ pc' = "worker"
                  /\ UNCHANGED out
  /\ UNCHANGED << success_criteria, history, user_message, system_message, llm_messages,
                  clock, runs, run_base, n_worker, n_tools, tool_outcomes >>
  /\ UNCHANGED aux_vars

evaluator_returns ==
  /\ pc = "evaluator"
  /\ last_step' = "evaluator"
  /\ n_invoke' = n_invoke + 1
  /\ invoke_raised' = FALSE
  /\ \E v \in Verdicts :
          /\ messages' = add_messages(messages,
                            <<AIMessage("Evaluator Feedback: " \o v.feedback, <<>>)>>, next_id)
          /\ next_id' = next_id + 1
          /\ feedback_on_work' = Some(v.feedback)
          /\ success_criteria_met' = v.success_criteria_met
          /\ user_input_needed' = v.user_input_needed
          /\ last_verdict' = Some(v)
          /\ n_eval' = n_eval + 1
          /\ n_reject' = IF v.success_criteria_met \/ v.user_input_needed
                         THEN n_reject ELSE n_reject + 1
          /\ IF route_post_eval(success_criteria_met', user_input_needed') = "END"
             THEN /\ pc' = "done"
                  /\ out' = format_out(history, user_message, messages')
             ELSE /\ pc' = "worker"
                  /\ UNCHANGED out
  /\ UNCHANGED << success_criteria, history, user_message, system_message, llm_messages,
                  clock, runs, run_base, n_worker, n_tools, tool_outcomes >>
  /\ UNCHANGED aux_vars

evaluator == evaluator_returns \/ evaluator_raises

(* ----------------------------- run_step --------------------------------- *)
convert_history(hist) ==
  [i \in 1..Len(hist) |->
     IF hist[i].role = "user" THEN HumanMessage(hist[i].content)
     ELSE AIMessage(hist[i].content, <<>>)]

DefaultCriteria == "Provide a clear, accurate analysis."

\* the input state is written over the checkpoint of the thread: messages go
\* through the reducer, every other key is overwritten; then START -> worker
run_step ==
  /\ pc \in {"idle", "done", "failed"}
  /\ runs < MaxRuns
  /\ \E h \in Histories, u \in UserMessages, c \in Criteria :
       LET msgs == convert_history(h) \o <<HumanMessage(u)>> IN
         /\ history' = h
         /\ user_message' = u
         /\ messages' = add_messages(messages, msgs, next_id)
         /\ next_id' = next_id + Len(msgs)
         /\ success_criteria' = IF c # "" THEN c ELSE DefaultCriteria
  /\ feedback_on_work' = None
  /\ success_criteria_met' = FALSE
  /\ user_input_needed' = FALSE
  /\ run_base' = Len(messages)
  /\ runs' = runs + 1
  /\ n_worker' = 0
  /\ n_tools' = 0
  /\ n_eval' = 0
  /\ n_reject' = 0
  /\ last_verdict' = None
  /\ n_invoke' = 0
  /\ invoke_raised' = FALSE
  /\ pc' = "worker"
  /\ last_step' = "start"
  /\ UNCHANGED << out, system_message, llm_messages, clock, tool_outcomes >>
  /\ UNCHANGED aux_vars

(* ----------------------------- specification ---------------------------- *)
LoopInit ==
  /\ pc = "idle"
  /\ messages = <<>>
  /\ success_criteria = ""
  /\ feedback_on_work = None
  /\ success_criteria_met = FALSE
  /\ user_input_needed = FALSE
  /\ next_id = 1
  /\ history = <<>>
  /\ user_message = ""
  /\ out = <<>>
  /\ system_message = ""
  /\ llm_messages = <<>>
  /\ clock = 0
  /\ runs = 0
  /\ run_base = 0
  /\ n_worker = 0
  /\ n_tools = 0
  /\ n_eval = 0
  /\ n_reject = 0
  /\ last_step = "none"
  /\ last_verdict = None
  /\ tool_outcomes = <<>>
  /\ n_invoke = 0
  /\ invoke_raised = FALSE

\* Sidekick.__init__: no handles yet
CleanupInit ==
  /\ c_pc = "new"
  /\ sk_browser = FALSE
  /\ sk_playwright = FALSE
  /\ browser_state = "absent"
  /\ playwright_state = "absent"
  /\ c_loop_running = FALSE
  /\ c_tasks = <<>>
  /\ c_calls = 0
  /\ c_issued = 0
  /\ c_released_before = FALSE

\* no call of select_prompt on its own
PromptInit ==
  /\ p_input = [none |-> TRUE, tokens |-> <<>>]
  /\ p_result = None

\* the two calls the overlap is explored for
Calls == 1..2

EmptyChannels ==
  [messages |-> <<>>, success_criteria |-> "", feedback_on_work |-> None,
   success_criteria_met |-> FALSE, user_input_needed |-> FALSE]

\* a new Sidekick: an empty MemorySaver, no call started
ConcInit ==
  /\ k_pc = [i \in Calls |-> "idle"]
  /\ k_state = [i \in Calls |-> EmptyChannels]
  /\ checkpoint = EmptyChannels
  /\ k_writer = 0
  /\ k_next_id = 1
  /\ k_steps = 0
  /\ k_start_len = [i \in Calls |-> 0]
  /\ k_foreign = [i \in Calls |-> 0]

Script(kind, k) == [kind |-> kind, k |-> k]

\* no scripted run started
LimitIdle ==
  /\ l_pc = "idle"
  /\ l_state = EmptyChannels
  /\ l_next_id = 1
  /\ l_steps = 0
  /\ l_evals = 0
  /\ l_error = ""

LimitInit ==
  /\ l_script = Script("accept_after", 0)
  /\ LimitIdle

Init == LoopInit /\ CleanupInit /\ PromptInit /\ ConcInit /\ LimitInit

Next == run_step \/ worker \/ tools \/ evaluator

Spec == Init /\ [][Next]_vars

(* ----------------------------- setup and cleanup ------------------------ *)
\* a task on the event loop: awaited is FALSE for loop.create_task(op), which
\* nobody awaits, and TRUE for asyncio.run(op)
Task(op, awaited) == [op |-> op, awaited |-> awaited, st |-> "scheduled"]

\* graceful_close(browser, playwright): what it puts on an event loop.  It is
\* a coroutine, so when its body runs a loop is running (has_loop); the
\* RuntimeError branch is the has_loop = FALSE case of the source.
graceful_close(browser, playwright, has_loop) ==
  IF ~browser /\ ~playwright THEN <<>>
  ELSE (IF browser THEN <<Task("browser.close", ~has_loop)>> ELSE <<>>)
       \o (IF playwright THEN <<Task("playwright.stop", ~has_loop)>> ELSE <<>>)

\* Sidekick.setup: load_all_tools starts Playwright and launches the browser
setup ==
  /\ c_pc = "new"
  /\ sk_browser' = TRUE
  /\ sk_playwright' = TRUE
  /\ browser_state' = "open"
  /\ playwright_state' = "started"
  /\ c_pc' = "ready"
  /\ UNCHANGED << c_loop_running, c_tasks, c_calls, c_issued, c_released_before, loop_vars, prompt_vars, conc_vars, limit_vars >>

\* cleanup() is entered; "import anyio" either works or raises ImportError,
\* which the except clause catches
cleanup_begin ==
  /\ c_pc \in {"new", "ready", "returned", "raised"}
  /\ c_calls < MaxCleanups
  /\ c_calls' = c_calls + 1
  /\ c_issued' = 0
  /\ c_tasks' = <<>>
  /\ c_released_before' = (browser_state = "closed" /\ playwright_state = "stopped")
  /\ \E running \in BOOLEAN, anyio_ok \in BOOLEAN :
       /\ c_loop_running' = running
       /\ c_pc' = IF anyio_ok THEN "anyio_run" ELSE "fallback_run"
  /\ UNCHANGED << sk_browser, sk_playwright, browser_state, playwright_state, loop_vars,
                  prompt_vars, conc_vars, limit_vars >>

\* anyio.run(graceful_close, ...): refuses to start inside a running loop
\* (RuntimeError, caught); otherwise runs graceful_close on a new loop
anyio_run ==
  /\ c_pc = "anyio_run"
  /\ IF c_loop_running
     THEN /\ c_pc' = "fallback_run"
          /\ UNCHANGED c_tasks
     ELSE /\ c_tasks' = graceful_close(sk_browser, sk_playwright, TRUE)
          /\ c_pc' = "draining"
  /\ UNCHANGED << sk_browser, sk_playwright, browser_state, playwright_state,
                  c_loop_running, c_calls, c_issued, c_released_before, loop_vars, prompt_vars, conc_vars, limit_vars >>

\* asyncio.run(graceful_close(...)) in the except clause: inside a running
\* loop it raises RuntimeError, which nothing catches
fallback_run ==
  /\ c_pc = "fallback_run"
  /\ IF c_loop_running
     THEN /\ c_pc' = "raised"
          /\ UNCHANGED c_tasks
     ELSE /\ c_tasks' = graceful_close(sk_browser, sk_playwright, TRUE)
          /\ c_pc' = "draining"
  /\ UNCHANGED << sk_browser, sk_playwright, browser_state, playwright_state,
                  c_loop_running, c_calls, c_issued, c_released_before, loop_vars, prompt_vars, conc_vars, limit_vars >>

FirstScheduled ==
  IF \E i \in 1..Len(c_tasks) : c_tasks[i].st = "scheduled"
  THEN CHOOSE i \in 1..Len(c_tasks) :
          /\ c_tasks[i].st = "scheduled"
          /\ \A j \in 1..(i - 1) : c_tasks[j].st # "scheduled"
  ELSE 0

\* the loop gives each created task its first step after graceful_close has
\* returned: the operation is sent to the driver, then the task waits for
\* the answer (suspended) or fails at once (error); an awaited operation
\* runs to its end (done) or fails
task_first_step ==
  /\ c_pc = "draining"
  /\ FirstScheduled # 0
  /\ LET i == FirstScheduled
         t == c_tasks[i]
     IN /\ \E o \in (IF t.awaited THEN {"done", "error"} ELSE {"suspended", "error"}) :
             c_tasks' = [c_tasks EXCEPT ![i].st = o]
        /\ IF t.op = "browser.close"
           THEN /\ browser_state' =
                     IF c_tasks'[i].st = "done" THEN "closed"
                     ELSE IF browser_state = "open" THEN "closing" ELSE browser_state
                /\ UNCHANGED playwright_state
           ELSE /\ playwright_state' =
                     IF c_tasks'[i].st = "done" THEN "stopped"
                     ELSE IF playwright_state = "started" THEN "stopping" ELSE playwright_state
                /\ UNCHANGED browser_state
  /\ c_issued' = c_issued + 1
  /\ UNCHANGED << c_pc, sk_browser, sk_playwright, c_loop_running, c_calls,
                  c_released_before, loop_vars, prompt_vars, conc_vars, limit_vars >>

\* graceful_close has returned, so the loop stops: tasks still waiting are
\* cancelled, task errors are only logged, and cleanup() returns; the
\* handles of the Sidekick are left as they were
loop_end ==
  /\ c_pc = "draining"
  /\ FirstScheduled = 0
  /\ c_tasks' = [i \in 1..Len(c_tasks) |->
                   IF c_tasks[i].st = "suspended"
                   THEN [c_tasks[i] EXCEPT !.st = "cancelled"] ELSE c_tasks[i]]
  /\ c_pc' = "returned"
  /\ UNCHANGED << sk_browser, sk_playwright, browser_state, playwright_state,
                  c_loop_running, c_calls, c_issued, c_released_before, loop_vars, prompt_vars, conc_vars, limit_vars >>

\* the Playwright driver process acts on a request it has received
driver_progress ==
  /\ \/ /\ browser_state = "closing"
        /\ browser_state' = "closed"
        /\ UNCHANGED playwright_state
     \/ /\ playwright_state = "stopping"
        /\ playwright_state' = "stopped"
        /\ UNCHANGED browser_state
  /\ UNCHANGED << c_pc, sk_browser, sk_playwright, c_loop_running, c_tasks, c_calls,
                  c_issued, c_released_before, loop_vars, prompt_vars, conc_vars, limit_vars >>

NextCleanup ==
  setup \/ cleanup_begin \/ anyio_run \/ fallback_run \/ task_first_step \/ loop_end
    \/ driver_progress

SpecCleanup == Init /\ [][NextCleanup]_vars

(* ----------------------------- select_prompt on its own ----------------- *)
\* pieces of text; an argument is a concatenation of at most MaxTokens pieces
SentimentTokens == { "sentiment", "SENTIMENT" }
MetricsTokens == { "metric", "kpi", "KPI", "performance" }
FillerTokens == { " ", "s", "please do a ", " read", " check", " review" }
Lexicon == SentimentTokens \cup MetricsTokens \cup FillerTokens

RECURSIVE Concat(_)
Concat(tokens) == IF tokens = <<>> THEN "" ELSE Head(tokens) \o Concat(Tail(tokens))

PromptInputs ==
  { [none |-> TRUE, tokens |-> <<>>] }
    \cup { [none |-> FALSE, tokens |-> t] : t \in UNION { [1..n -> Lexicon] : n \in 0..MaxTokens } }

\* "mode or ''": None and the empty text both become the empty text
mode_or_empty(input) == IF input.none THEN "" ELSE Concat(input.tokens)

apply_select_prompt ==
  /\ p_result = None
  /\ p_result' = Some(select_prompt(mode_or_empty(p_input)))
  /\ UNCHANGED << p_input, loop_vars, cleanup_vars, conc_vars, limit_vars >>

InitPrompt ==
  /\ LoopInit
  /\ CleanupInit
  /\ ConcInit
  /\ LimitInit
  /\ p_input \in PromptInputs
  /\ p_result = None

NextPrompt == apply_select_prompt

SpecPrompt == InitPrompt /\ [][NextPrompt]_vars

(* ----------------------------- overlapping run_step calls --------------- *)
\* what each call was given by its UI event
ConcUserMessage(i) == IF i = 1 THEN "OpenAI launch" ELSE "and pricing?"
ConcCriteria(i) == IF i = 1 THEN "" ELSE " KPI check "

InFlight(i) == k_pc[i] \in {"worker", "tools", "evaluator"}

\* run_step has no lock and every call uses self._thread_id: ainvoke reads the
\* latest checkpoint of the thread, writes its input over it (messages through
\* the reducer, every other key overwritten) and goes to the worker; from then
\* on the invocation works on its own channel values and saves them after
\* every step
conc_run_step(i) ==
  /\ k_pc[i] = "idle"
  /\ LET started == [checkpoint EXCEPT
                       !.messages = add_messages(checkpoint.messages,
                                       <<HumanMessage(ConcUserMessage(i))>>, k_next_id),
                       !.success_criteria = IF ConcCriteria(i) # "" THEN ConcCriteria(i)
                                            ELSE DefaultCriteria,
                       !.feedback_on_work = None,
                       !.success_criteria_met = FALSE,
                       !.user_input_needed = FALSE]
     IN /\ k_state' = [k_state EXCEPT ![i] = started]
        /\ checkpoint' = started
  /\ k_writer' = i
  /\ k_next_id' = k_next_id + 1
  /\ k_pc' = [k_pc EXCEPT ![i] = "worker"]
  /\ k_start_len' = [k_start_len EXCEPT ![i] = Len(checkpoint.messages)]
  /\ k_foreign' = [k_foreign EXCEPT ![i] =
                     IF k_writer # 0 /\ InFlight(k_writer)
                     THEN Len(checkpoint.messages) - k_start_len[k_writer]
                     ELSE 0]
  /\ UNCHANGED << k_steps, loop_vars, cleanup_vars, prompt_vars, limit_vars >>

conc_worker(i) ==
  /\ k_pc[i] = "worker"
  /\ k_steps < MaxConcSteps
  /\ k_steps' = k_steps + 1
  /\ \/ \E r \in WorkerResponses :
          LET after == [k_state[i] EXCEPT
                          !.messages = add_messages(k_state[i].messages,
                                          <<AIMessage(r.content, r.tool_calls)>>, k_next_id)]
          IN /\ k_state' = [k_state EXCEPT ![i] = after]
             /\ checkpoint' = after
             /\ k_writer' = i
             /\ k_next_id' = k_next_id + 1
             /\ k_pc' = [k_pc EXCEPT ![i] = worker_router(after.messages)]
     \/ \* the model invocation raises
        /\ k_pc' = [k_pc EXCEPT ![i] = "failed"]
        /\ UNCHANGED << k_state, checkpoint, k_writer, k_next_id >>
  /\ UNCHANGED << k_start_len, k_foreign, loop_vars, cleanup_vars, prompt_vars, limit_vars >>

conc_tools(i) ==
  /\ k_pc[i] = "tools"
  /\ k_steps < MaxConcSteps
  /\ k_steps' = k_steps + 1
  /\ LET calls == Last(k_state[i].messages).tool_calls IN
       \E outs \in [1..Len(calls) -> ToolOutcomes] :
          LET after == [k_state[i] EXCEPT
                          !.messages = add_messages(k_state[i].messages,
                             [n \in 1..Len(calls) |-> ToolMessage(tool_content(outs[n]), calls[n])],
                             k_next_id)]
          IN /\ k_state' = [k_state EXCEPT ![i] = after]
             /\ checkpoint' = after
             /\ k_next_id' = k_next_id + Len(calls)
  /\ k_writer' = i
  /\ k_pc' = [k_pc EXCEPT ![i] = tools_edge]
  /\ UNCHANGED << k_start_len, k_foreign, loop_vars, cleanup_vars, prompt_vars, limit_vars >>

conc_evaluator(i) ==
  /\ k_pc[i] = "evaluator"
  /\ k_steps < MaxConcSteps
  /\ k_steps' = k_steps + 1
  /\ \/ \E v \in Verdicts :
          LET after == [k_state[i] EXCEPT
                          !.messages = add_messages(k_state[i].messages,
                             <<AIMessage("Evaluator Feedback: " \o v.feedback, <<>>)>>,
                             k_next_id),
                          !.feedback_on_work = Some(v.feedback),
                          !.success_criteria_met = v.success_criteria_met,
                          !.user_input_needed = v.user_input_needed]
          IN /\ k_state' = [k_state EXCEPT ![i] = after]
             /\ checkpoint' = after
             /\ k_writer' = i
             /\ k_next_id' = k_next_id + 1
             /\ k_pc' = [k_pc EXCEPT ![i] =
                           IF route_post_eval(v.success_criteria_met, v.user_input_needed) = "END"
                           THEN "done" ELSE "worker"]
     \/ \* the model invocation raises
        /\ k_pc' = [k_pc EXCEPT ![i] = "failed"]
        /\ UNCHANGED << k_state, checkpoint, k_writer, k_next_id >>
  /\ UNCHANGED << k_start_len, k_foreign, loop_vars, cleanup_vars, prompt_vars, limit_vars >>

NextConc ==
  \E i \in Calls : conc_run_step(i) \/ conc_worker(i) \/ conc_tools(i) \/ conc_evaluator(i)

SpecConc == Init /\ [][NextConc]_vars

(* ----------------------------- one run to its end ----------------------- *)
\* run_step passes config = {"configurable": {"thread_id": ...}} and no
\* recursion_limit, so the graph runs under the runtime's default limit
recursion_limit_doubled == 2 * 25
recursion_limit == 25

\* scripted models: the worker always asks for a tool, the evaluator always
\* rejects, both in turn, or the evaluator accepts after k rejections
Scripts ==
  { Script("always_tools", 0), Script("always_reject", 0), Script("tools_and_reject", 0) }
    \cup { Script("accept_after", k) : k \in 0..MaxRejects }

ToolCallResponse == [content |-> "", tool_calls |-> <<"call_1">>]
FinalResponse == [content |-> "final", tool_calls |-> <<>>]

scripted_response(script, msgs) ==
  IF \/ script.kind = "always_tools"
     \/ script.kind = "tools_and_reject" /\ Last(msgs).type # "tool"
  THEN ToolCallResponse ELSE FinalResponse

scripted_verdict(script, evals) ==
  IF script.kind = "accept_after" /\ evals >= script.k
  THEN Verdict("ok", TRUE, FALSE) ELSE Verdict("add sources", FALSE, FALSE)

\* the runtime runs a super-step only while the invocation has run at most
\* recursion_limit of them
MayStep == l_steps <= recursion_limit

limit_run_step ==
  /\ l_pc = "idle"
  /\ l_state' = [l_state EXCEPT
                   !.messages = add_messages(l_state.messages,
                                   <<HumanMessage("OpenAI launch")>>, l_next_id),
                   !.success_criteria = DefaultCriteria,
                   !.feedback_on_work = None,
                   !.success_criteria_met = FALSE,
                   !.user_input_needed = FALSE]
  /\ l_next_id' = l_next_id + 1
  /\ l_pc' = "worker"
  /\ UNCHANGED << l_script, l_steps, l_evals, l_error, loop_vars, cleanup_vars,
                  prompt_vars, conc_vars >>

limit_worker ==
  /\ l_pc = "worker"
  /\ MayStep
  /\ LET r == scripted_response(l_script, l_state.messages)
         after == add_messages(l_state.messages, <<AIMessage(r.content, r.tool_calls)>>,
                               l_next_id)
     IN /\ l_state' = [l_state EXCEPT !.messages = after]
        /\ l_pc' = worker_router(after)
  /\ l_next_id' = l_next_id + 1
  /\ l_steps' = l_steps + 1
  /\ UNCHANGED << l_script, l_evals, l_error, loop_vars, cleanup_vars, prompt_vars,
                  conc_vars >>

limit_tools ==
  /\ l_pc = "tools"
  /\ MayStep
  /\ LET calls == Last(l_state.messages).tool_calls IN
       /\ l_state' = [l_state EXCEPT
                        !.messages = add_messages(l_state.messages,
                           [n \in 1..Len(calls) |-> ToolMessage(tool_content("returns"), calls[n])],
                           l_next_id)]
       /\ l_next_id' = l_next_id + Len(calls)
  /\ l_pc' = tools_edge
  /\ l_steps' = l_steps + 1
  /\ UNCHANGED << l_script, l_evals, l_error, loop_vars, cleanup_vars, prompt_vars,
                  conc_vars >>

limit_evaluator ==
  /\ l_pc = "evaluator"
  /\ MayStep
  /\ LET v == scripted_verdict(l_script, l_evals) IN
       /\ l_state' = [l_state EXCEPT
                        !.messages = add_messages(l_state.messages,
                           <<AIMessage("Evaluator Feedback: " \o v.feedback, <<>>)>>,
                           l_next_id),
                        !.feedback_on_work = Some(v.feedback),
                        !.success_criteria_met = v.success_criteria_met,
                        !.user_input_needed = v.user_input_needed]
       /\ l_pc' = IF route_post_eval(v.success_criteria_met, v.user_input_needed) = "END"
                  THEN "finishing" ELSE "worker"
  /\ l_next_id' = l_next_id + 1
  /\ l_steps' = l_steps + 1
  /\ l_evals' = l_evals + 1
  /\ UNCHANGED << l_script, l_error, loop_vars, cleanup_vars, prompt_vars, conc_vars >>

\* the runtime finds nothing left to run: ainvoke returns the state
limit_finish ==
  /\ l_pc = "finishing"
  /\ MayStep
  /\ l_pc' = "done"
  /\ UNCHANGED << l_script, l_state, l_next_id, l_steps, l_evals, l_error, loop_vars,
                  cleanup_vars, prompt_vars, conc_vars >>

\* the limit is used up: ainvoke raises and nothing in run_step catches it
limit_out_of_steps ==
  /\ l_pc \in {"worker", "tools", "evaluator", "finishing"}
  /\ ~MayStep
  /\ l_pc' = "failed"
  /\ l_error' = "GraphRecursionError"
  /\ UNCHANGED << l_script, l_state, l_next_id, l_steps, l_evals, loop_vars,
                  cleanup_vars, prompt_vars, conc_vars >>

InitLimit ==
  /\ LoopInit
  /\ CleanupInit
  /\ PromptInit
  /\ ConcInit
  /\ l_script \in Scripts
  /\ LimitIdle

NextLimit ==
  \/ limit_run_step
  \/ limit_worker
  \/ limit_tools
  \/ limit_evaluator
  \/ limit_finish
  \/ limit_out_of_steps

SpecLimit == InitLimit /\ [][NextLimit]_vars

(* ----------------------------- properties ------------------------------ *)
SystemCount(msgs) == Len(SelectSeq(msgs, LAMBDA m : m.type = "system"))

\* a message without its id
Plain(m) == [type |-> m.type, content |-> m.content, tool_calls |-> m.tool_calls,
             tool_call_id |-> m.tool_call_id]
PlainSeq(msgs) == [i \in 1..Len(msgs) |-> Plain(msgs[i])]

\* the messages the graph nodes appended during the current run
Generated == SubSeq(messages, run_base + Len(history) + 2, Len(messages))

\* C1: whenever the controller is in DONE, success_criteria_met or
\* user_input_needed is true; DONE is never entered with both flags false.
C1_DoneImpliesFlag ==
  pc = "done" => (success_criteria_met \/ user_input_needed)

C1_Witness ==
  pc = "done" /\ last_step = "evaluator" /\ user_input_needed /\ ~success_criteria_met

\* C2 as stated: right after every Worker step the state's messages hold
\* exactly one System message.
C2_StateHasOneSystem ==
  (last_step = "worker" /\ pc # "failed") => SystemCount(messages) = 1

\* C2 amended: right after every Worker step the list handed to the model
\* holds exactly one System message, at its head, and the state's messages
\* hold none (the worker returns only the model's response).
C2_OneSystemInModelInput ==
  (last_step = "worker" /\ pc # "failed") =>
     /\ SystemCount(llm_messages) = 1
     /\ llm_messages[1].type = "system"
     /\ SystemCount(messages) = 0

C2_Witness ==
  /\ last_step = "worker" /\ pc = "evaluator" /\ n_worker = 2
  /\ SystemCount(llm_messages) = 1 /\ SystemCount(messages) = 0

\* C3: at the first Worker step of every run the state's messages are exactly
\* the converted history followed by the new user message, and the flags and
\* the feedback are fresh, whatever earlier runs did on the same instance.
C3_FreshStatePerRun ==
  (pc = "worker" /\ last_step = "start") =>
     /\ PlainSeq(messages) = PlainSeq(convert_history(history) \o <<HumanMessage(user_message)>>)
     /\ feedback_on_work = None
     /\ ~success_criteria_met
     /\ ~user_input_needed

\* C4: a run_step that reaches DONE returns the history, the new user turn and
\* one assistant entry per Assistant message generated during this run, in
\* order, and nothing else.
C4_ReturnsHistoryPlusGenerated ==
  pc = "done" =>
     out = history \o <<[role |-> "user", content |-> user_message]>>
                   \o AssistantEntries(Generated)

\* the run of C5: no history, a tool-call request, one tool round, a final
\* text, and a verdict of goal met with feedback "ok"
C5_Scenario ==
  /\ pc = "done"
  /\ history = <<>>
  /\ n_worker = 2 /\ n_tools = 1 /\ n_eval = 1
  /\ Generated[1].tool_calls # <<>>
  /\ last_verdict = Some(Verdict("ok", TRUE, FALSE))

\* C5: in that run the returned transcript is the user turn, an assistant turn
\* with the final text and an assistant turn "Evaluator Feedback: ok"; the
\* tool-call-only worker turn is no entry of its own.
C5_ToolRoundTranscript ==
  C5_Scenario =>
     out = << [role |-> "user", content |-> user_message],
              [role |-> "assistant", content |-> Generated[3].content],
              [role |-> "assistant", content |-> "Evaluator Feedback: ok"] >>

\* C6: the step after Tool Dispatch is always the Worker step; there is no
\* transition from TOOLS to EVALUATOR or to DONE.
C6_ToolsThenWorker ==
  [][pc = "tools" => pc' = "worker"]_vars

C6_Witness ==
  /\ last_step = "tools" /\ pc = "worker"
  /\ Last(messages).type = "tool" /\ Last(messages).content = "Error: tool failed"

\* C7: after a Worker step the controller goes to TOOLS exactly when the
\* appended message carries pending tool calls, otherwise to EVALUATOR; so the
\* Evaluator runs on a last Assistant message without tool calls and Tool
\* Dispatch on a last Assistant message with tool calls.
C7_RoutingAfterWorker ==
  [][ /\ (pc = "worker" /\ pc' # "failed") =>
            /\ Last(messages').type = "ai"
            /\ Len(messages') = Len(messages) + 1
            /\ pc' = (IF Last(messages').tool_calls # <<>> THEN "tools" ELSE "evaluator")
      /\ pc = "evaluator" =>
            (Last(messages).type = "ai" /\ Last(messages).tool_calls = <<>>)
      /\ pc = "tools" =>
            (Last(messages).type = "ai" /\ Last(messages).tool_calls # <<>>) ]_vars

C7_Witness ==
  /\ last_step = "worker" /\ pc = "tools" /\ n_eval = 1
  /\ Last(messages).type = "ai" /\ Last(messages).tool_calls # <<>>

\* C8: both flags are false at the start of every run and whenever a Worker
\* or Tool Dispatch step is about to execute or has just executed.
C8_FlagsFalseAroundWorkerAndTools ==
  (pc \in {"worker", "tools"} \/ last_step \in {"start", "worker", "tools"}) =>
     (~success_criteria_met /\ ~user_input_needed)

C8_Witness ==
  /\ runs = 2 /\ out # <<>>
  /\ pc = "worker" /\ last_step = "evaluator"
  /\ ~success_criteria_met /\ ~user_input_needed

\* C9 as stated: the directive of every Worker step that follows an Evaluator
\* step of the same run contains the corrective block with that verdict's
\* feedback verbatim; the directive of the first Worker step of a run has no
\* corrective block.
C9_FeedbackAlwaysQuoted ==
  last_step = "worker" =>
     /\ n_eval > 0 => Contains(system_message, CorrectiveBlock(last_verdict[1].feedback))
     /\ n_worker = 1 => ~Contains(system_message, CorrectiveHeader)

\* C9 amended: the corrective block with the verdict's feedback verbatim is
\* in the directive when that feedback is a non-empty text; after a verdict
\* with empty feedback, and at the first Worker step of a run, the directive
\* has no corrective block.
C9_NonEmptyFeedbackQuoted ==
  last_step = "worker" =>
     /\ (n_eval > 0 /\ last_verdict[1].feedback # "") =>
           Contains(system_message, CorrectiveBlock(last_verdict[1].feedback))
     /\ (n_eval > 0 /\ last_verdict[1].feedback = "") =>
           ~Contains(system_message, CorrectiveHeader)
     /\ n_worker = 1 => ~Contains(system_message, CorrectiveHeader)

C9_Witness ==
  /\ last_step = "worker" /\ n_eval = 1 /\ n_worker = 2
  /\ last_verdict[1].feedback = "add sources"
  /\ Contains(system_message, CorrectiveBlock("add sources"))

\* C10: in every run that reaches DONE the Evaluator ran once more than it
\* rejected, and the Worker ran as often as Tool Dispatch and the Evaluator
\* together.
C10_StepCounts ==
  pc = "done" =>
     /\ n_eval = 1 + n_reject
     /\ n_worker = n_tools + n_eval

C10_Witness ==
  pc = "done" /\ n_worker = 3 /\ n_tools = 1 /\ n_eval = 2 /\ n_reject = 1

C12_ModelFailurePropagates ==
  [][ /\ (pc \in {"worker", "evaluator"} /\ invoke_raised') =>
            /\ pc' = "failed"
            /\ n_invoke' = n_invoke + 1
            /\ messages' = messages
            /\ feedback_on_work' = feedback_on_work
            /\ success_criteria_met' = success_criteria_met
            /\ user_input_needed' = user_input_needed
            /\ out' = out
      /\ pc = "failed" => (pc' = "worker" /\ runs' = runs + 1) ]_vars

C12_Witness ==
  /\ pc = "failed" /\ invoke_raised /\ last_step = "evaluator"
  /\ n_eval = 1 /\ n_invoke = 4 /\ out = <<>>

\* C13: the second of two cleanup() calls in succession produces no error and
\* is a no-op: it begins no further close/stop operation on handles the first
\* call has released.  Stated for calls made outside a running event loop.
C13_SecondCleanupNoOp ==
  ( /\ c_calls = 2 /\ ~c_loop_running
    /\ c_pc \in {"returned", "raised"}
    /\ c_released_before ) =>
     (c_pc = "returned" /\ c_issued = 0)

\* C14: cleanup() never raises to its caller, with or without a running event
\* loop in the calling context and whether or not closing fails.
C14_CleanupNeverRaises ==
  c_pc # "raised"

\* C15: after setup() acquired both handles, when cleanup() returns both have
\* been closed: the scheduled close and stop ran to completion before the
\* loop ended.
C15_ClosedWhenCleanupReturns ==
  (c_pc = "returned" /\ sk_browser /\ sk_playwright) =>
     /\ browser_state = "closed"
     /\ playwright_state = "stopped"
     /\ \A i \in 1..Len(c_tasks) : c_tasks[i].st = "done"

\* what the pieces of an argument say, without looking at its text
HasToken(input, set) == \E i \in 1..Len(input.tokens) : input.tokens[i] \in set

C17_AmbiguousGetsCompetitor ==
  ( /\ p_result # None
    /\ HasToken(p_input, SentimentTokens)
    /\ HasToken(p_input, MetricsTokens) ) =>
     p_result = Some(COMPETITOR_PROMPT)

\* C18: within a run the messages only grow: after every worker, tools and
\* evaluator step the messages from before the step are a prefix of the
\* messages after it, and a worker step whose model call returns adds exactly
\* one message, the model's reply.
C18_WorkerReply(before, after) ==
  /\ Len(after) = Len(before) + 1
  /\ Last(after).type = "ai"
  /\ \E r \in WorkerResponses : Plain(Last(after)) = Plain(AIMessage(r.content, r.tool_calls))

C18_Step ==
  pc \in {"worker", "tools", "evaluator"} =>
     /\ Len(messages') >= Len(messages)
     /\ SubSeq(messages', 1, Len(messages)) = messages
     /\ (pc = "worker" /\ ~invoke_raised') => C18_WorkerReply(messages, messages')

C18_AppendOnly == [][C18_Step]_vars

C18_Witness ==
  /\ last_step = "evaluator"
  /\ n_worker >= 2
  /\ n_tools >= 1
  /\ Len(messages) = run_base + 4

\* C20: at every worker step the list handed to the model holds exactly one
\* System message, it is the first element, its content is the directive
\* composed in that step from the state the step started in, and the rest of
\* the list is the state's messages.
C20_Step ==
  (pc = "worker" /\ n_invoke' = n_invoke + 1) =>
     /\ SystemCount(llm_messages') = 1
     /\ Plain(Head(llm_messages')) =
          Plain(SystemMessage(compose_system_message(success_criteria, feedback_on_work, clock)))
     /\ Tail(llm_messages') = messages
     /\ system_message' = Head(llm_messages').content

C20_DirectiveHeadsModelInput == [][C20_Step]_vars

C20_Witness ==
  /\ last_step = "worker"
  /\ n_reject >= 1
  /\ Contains(system_message, CorrectiveHeader)
  /\ Head(llm_messages).content = system_message
  /\ Len(llm_messages) >= 4

\* C19: two run_step calls on the same Sidekick never have steps in flight
\* at the same time, no call starts from messages that an unfinished call
\* added, and while a call is in flight the thread's checkpoint holds that
\* call's messages and flags.
C19_CallsDoNotOverlap ==
  /\ \A i, j \in Calls : (i # j) => ~(InFlight(i) /\ InFlight(j))
  /\ \A i \in Calls : k_foreign[i] = 0
  /\ \A i \in Calls : InFlight(i) => checkpoint = k_state[i]

C22_Step ==
  /\ pc \in {"worker", "tools"} =>
        UNCHANGED << success_criteria, feedback_on_work, success_criteria_met,
                     user_input_needed >>
  /\ pc = "evaluator" => UNCHANGED success_criteria
  /\ (pc \in {"idle", "done", "failed"} /\ pc' = "worker") =>
        \E c \in Criteria :
           success_criteria' = (IF c = "" THEN "Provide a clear, accurate analysis." ELSE c)

C22_FrameEffects == [][C22_Step]_vars

C22_Witness ==
  /\ pc = "done"
  /\ last_step = "evaluator"
  /\ n_tools >= 1
  /\ n_reject >= 1
  /\ success_criteria = " KPI check "
  /\ feedback_on_work = Some("ok")

\* C23: every evaluator step makes exactly one model invocation; when the
\* invocation returns a verdict the step appends exactly one Assistant message
\* whose content is "Evaluator Feedback: " followed by the verdict's feedback,
\* sets feedback_on_work, success_criteria_met and user_input_needed to the
\* verdict's three fields, and the routing that follows reads those values.
C23_VerdictStored(v) ==
  /\ Len(messages') = Len(messages) + 1
  /\ SubSeq(messages', 1, Len(messages)) = messages
  /\ Last(messages').type = "ai"
  /\ Last(messages').content = "Evaluator Feedback: " \o v.feedback
  /\ Last(messages').tool_calls = <<>>
  /\ feedback_on_work' = Some(v.feedback)
  /\ success_criteria_met' = v.success_criteria_met
  /\ user_input_needed' = v.user_input_needed
  /\ pc' = (IF v.success_criteria_met \/ v.user_input_needed THEN "done" ELSE "worker")

C23_Step ==
  pc = "evaluator" =>
     /\ n_invoke' = n_invoke + 1
     /\ ~invoke_raised' =>
           /\ last_verdict' # None
           /\ last_verdict'[1] \in Verdicts
           /\ C23_VerdictStored(last_verdict'[1])

C23_EvaluatorStoresVerdict == [][C23_Step]_vars

C23_Witness ==
  /\ last_step = "evaluator"
  /\ ~invoke_raised
  /\ last_verdict = Some(Verdict("which product?", FALSE, TRUE))
  /\ Last(messages).content = "Evaluator Feedback: which product?"
  /\ feedback_on_work = Some("which product?")
  /\ user_input_needed /\ ~success_criteria_met
  /\ pc = "done"
  /\ n_eval = 2

====
